---- MODULE Spec2Model ----
(***************************************************************************)
(* A model of the regular-expression intersection checker:                 *)
(*   dfa.NewFromNFA        subset construction (src/dfa/dfa.go)            *)
(*   intersection.dfs      product search      (src/intersection/...go)    *)
(*   intersection.HasIntersection, convert2Dfa                             *)
(* The packages nfa and runerange are not part of the sources at hand; the *)
(* NFA is an input of the model and the runerange primitives are taken     *)
(* from the design document.                                               *)
(***************************************************************************)
EXTENDS Integers, Sequences, FiniteSets, TLC

\* ------------------------------------------------------------------ bounds
\* Largest rune of the alphabet: runes are 0..MaxRune.
MaxRune == 3
\* Number of nodes of a generated NFA.
MaxNfaState == 3
\* Largest number of edges of a generated NFA.
MaxEdges == 4
\* Number of generated NFAs offered as inputs (besides the named ones).
MaxSample == 10

Runes == 0..MaxRune

\* ------------------------------------------------------------ small helpers
Max(a, b) == IF a > b THEN a ELSE b
Min(a, b) == IF a < b THEN a ELSE b

RECURSIVE SetToSortedSeq(_)
\* The elements of a finite set of integers in ascending order (sort.Ints).
SetToSortedSeq(S) ==
    IF S = {} THEN <<>>
    ELSE LET x == CHOOSE y \in S : \A z \in S : y <= z
         IN <<x>> \o SetToSortedSeq(S \ {x})

SeqToSet(s) == {s[i] : i \in 1..Len(s)}

RECURSIVE FlattenSeq(_)
FlattenSeq(ss) == IF ss = <<>> THEN <<>> ELSE Head(ss) \o FlattenSeq(Tail(ss))

\* -------------------------------------------------------------- rune ranges
\* A rune-range list is the flat sequence <<lo1, hi1, lo2, hi2, ...>> of Go's
\* []rune; the nil slice (an epsilon label) is <<>>.
RangePairs(rr) == {<<rr[2 * k - 1], rr[2 * k]>> : k \in 1..(Len(rr) \div 2)}

\* The characters a rune-range list covers.
Chars(rr) == {c \in Runes : \E p \in RangePairs(rr) : p[1] <= c /\ c <= p[2]}

\* The maximal runs of consecutive characters of S, ascending, as a flat list.
RunsOf(S) ==
    LET starts == {c \in S : (c - 1) \notin S}
        endOf(s) == CHOOSE e \in S : e >= s /\ (s..e) \subseteq S /\ (e + 1) \notin S
    IN FlattenSeq([k \in 1..Cardinality(starts) |->
                     LET s == SetToSortedSeq(starts)[k] IN <<s, endOf(s)>>])

\* runerange.Overlaps: some range of a shares a character with some range of b.
Overlaps(a, b) ==
    \E p \in RangePairs(a) : \E q \in RangePairs(b) : p[1] <= q[2] /\ q[1] <= p[2]

\* runerange.Contains: some range of rr contains the probe range r = <<lo, hi>>.
Contains(rr, r) ==
    \E p \in RangePairs(rr) : p[1] <= r[1] /\ r[2] <= p[2]

\* runerange.Sum: the union of two range lists as one sorted disjoint list.
Sum(a, b) == RunsOf(Chars(a) \cup Chars(b))

\* runerange.Split: the elementary blocks of a collection of range lists: the
\* maximal runs of consecutive characters that lie in the same input ranges.
Split(ranges) ==
    LET all == UNION {RangePairs(ranges[k]) : k \in 1..Len(ranges)}
        sig(c) == {p \in all : p[1] <= c /\ c <= p[2]}
        covered == {c \in Runes : sig(c) # {}}
        starts == {c \in covered : (c - 1) \notin covered \/ sig(c - 1) # sig(c)}
        endOf(s) == CHOOSE e \in covered :
                        /\ e >= s
                        /\ \A x \in s..e : sig(x) = sig(s)
                        /\ ((e + 1) \notin covered \/ sig(e + 1) # sig(s))
    IN FlattenSeq([k \in 1..Cardinality(starts) |->
                     LET s == SetToSortedSeq(starts)[k] IN <<s, endOf(s)>>])

\* pairs[i:i+2] for the 0-based, even index i of Go.
PairAt(pairs, i) == <<pairs[i + 1], pairs[i + 2]>>

RECURSIVE findOverlapFrom(_, _, _, _, _)
RECURSIVE findOverlapByStart(_, _, _, _, _)
\* The loop of findOverlap advancing the cursor of the range that starts
\* first, where line 164 advances the cursor of the range that ends first.
findOverlapByStart(range1, range2, i, j, result) ==
    IF i < Len(range1) /\ j < Len(range2)
    THEN LET start == Max(range1[i + 1], range2[j + 1])
             end == Min(range1[i + 2], range2[j + 2])
             res2 == IF start <= end THEN result \o <<start, end>> ELSE result
         IN IF range1[i + 1] < range2[j + 1]
            THEN findOverlapByStart(range1, range2, i + 2, j, res2)
            ELSE findOverlapByStart(range1, range2, i, j + 2, res2)
    ELSE result

\* The loop of findOverlap with Go's 0-based cursors i and j.
findOverlapFrom(range1, range2, i, j, result) ==
    IF i < Len(range1) /\ j < Len(range2)
    THEN LET start == Max(range1[i + 1], range2[j + 1])
             end == Min(range1[i + 2], range2[j + 2])
             res2 == IF start <= end THEN result \o <<start, end>> ELSE result
         IN IF range1[i + 2] < range2[j + 2]
            THEN findOverlapFrom(range1, range2, i + 2, j, res2)
            ELSE findOverlapFrom(range1, range2, i, j + 2, res2)
    ELSE result

RECURSIVE findOverlapStrictFrom(_, _, _, _, _)
\* The loop of findOverlap with start < end for the test at line 160.
findOverlapStrictFrom(range1, range2, i, j, result) ==
    IF i < Len(range1) /\ j < Len(range2)
    THEN LET start == Max(range1[i + 1], range2[j + 1])
             end == Min(range1[i + 2], range2[j + 2])
             res2 == IF start < end THEN result \o <<start, end>> ELSE result
         IN IF range1[i + 2] < range2[j + 2]
            THEN findOverlapStrictFrom(range1, range2, i + 2, j, res2)
            ELSE findOverlapStrictFrom(range1, range2, i, j + 2, res2)
    ELSE result

findOverlapStrict(range1, range2) ==
    findOverlapStrictFrom(range1, range2, 0, 0, <<>>)

findOverlap(range1, range2) == findOverlapFrom(range1, range2, 0, 0, <<>>)

\* --------------------------------------------------------------- NFA inputs
\* An NFA (package nfa, outside the sources at hand) is a graph of nodes 1..n;
\* node i has state id S = i, the flag F[i] and the ordered edges T[i], each
\* [R |-> rune-range list or <<>> for epsilon, N |-> target node].
Edge(r, n) == [R |-> r, N |-> n]

MkNfa(root, finals, edges) ==
    [n |-> Len(edges), root |-> root,
     F |-> [i \in 1..Len(edges) |-> i \in finals], T |-> edges]

\* The expressions of the design document's scenarios as the NFAs a Thompson
\* style compiler gives them, two NFAs with several edges for one character
\* and one with a cycle of epsilon edges, with a = 0, b = 1, c = 2, d = 3,
\* [A-Z] = 0..1, [a-z] = 2..3 and [ab] = 0..1.
NamedNfas ==
    << MkNfa(1, {1}, << <<>> >>),                                         \* ""
       MkNfa(1, {2}, << <<Edge(<<0, 0>>, 2)>>, <<>> >>),                  \* a
       MkNfa(1, {3}, << <<Edge(<<>>, 2), Edge(<<>>, 3)>>,
                        <<Edge(<<0, 0>>, 1)>>, <<>> >>),                  \* a*
       MkNfa(1, {3}, << <<Edge(<<0, 0>>, 2)>>,
                        <<Edge(<<>>, 1), Edge(<<>>, 3)>>, <<>> >>),       \* a+
       MkNfa(1, {6}, << <<Edge(<<>>, 2), Edge(<<>>, 3)>>,
                        <<Edge(<<0, 0>>, 1)>>, <<Edge(<<1, 1>>, 4)>>,
                        <<Edge(<<0, 0>>, 5)>>,
                        <<Edge(<<>>, 4), Edge(<<>>, 6)>>, <<>> >>),       \* a*ba+
       MkNfa(1, {7}, << <<Edge(<<>>, 2), Edge(<<>>, 3)>>,
                        <<Edge(<<1, 1>>, 1)>>, <<Edge(<<0, 0>>, 4)>>,
                        <<Edge(<<1, 1>>, 5)>>,
                        <<Edge(<<>>, 4), Edge(<<>>, 6)>>,
                        <<Edge(<<0, 0>>, 7)>>, <<>> >>),                  \* b*ab+a
       MkNfa(1, {3}, << <<Edge(<<0, 1>>, 2)>>,
                        <<Edge(<<>>, 1), Edge(<<>>, 3)>>, <<>> >>),       \* [A-Z]+
       MkNfa(1, {3}, << <<Edge(<<2, 3>>, 2)>>,
                        <<Edge(<<>>, 1), Edge(<<>>, 3)>>, <<>> >>),       \* [a-z]+
       MkNfa(1, {4}, << <<Edge(<<>>, 2), Edge(<<>>, 3)>>,
                        <<Edge(<<0, 0>>, 4)>>, <<Edge(<<1, 1>>, 4)>>,
                        <<>> >>),                                         \* (a|b)
       MkNfa(1, {4}, << <<Edge(<<>>, 2), Edge(<<>>, 3)>>,
                        <<Edge(<<2, 2>>, 4)>>, <<Edge(<<3, 3>>, 4)>>,
                        <<>> >>),                                         \* (c|d)
       MkNfa(1, {6}, << <<Edge(<<>>, 2), Edge(<<>>, 3)>>,
                        <<Edge(<<0, 0>>, 6)>>, <<Edge(<<0, 0>>, 4)>>,
                        <<Edge(<<1, 1>>, 5)>>, <<Edge(<<>>, 6)>>, <<>> >>), \* (a|ab)
       MkNfa(1, {3}, << <<Edge(<<0, 1>>, 1), Edge(<<0, 0>>, 2)>>,
                        <<Edge(<<0, 1>>, 3)>>, <<>> >>),              \* [ab]*a[ab]
       MkNfa(1, {4}, << <<Edge(<<>>, 2), Edge(<<>>, 4)>>,
                        <<Edge(<<>>, 3), Edge(<<>>, 1)>>,
                        <<Edge(<<0, 0>>, 2)>>, <<>> >>) >>                \* (a*)*

\* Generated NFAs: graph number k takes its flags, edge counts, labels and
\* targets from the k-th stream of a quadratic congruential generator, so
\* that the inputs include epsilon cycles, overlapping labels, several final
\* nodes and nodes that are final and have edges.
RECURSIVE Rnd(_, _)
Rnd(k, j) == IF j = 0 THEN ((k + 1) * 7919) % 32749
             ELSE LET r == Rnd(k, j - 1) IN (r * r + j) % 32749

LabelOf(r) ==
    LET w == MaxRune + 1
        a == (r \div 3) % w
        b == (r \div (3 * w)) % w
        lo == Min(a, b)
        hi == Max(a, b)
    IN IF r % 3 = 0 THEN <<>>
       ELSE IF lo >= 2 /\ (r \div (3 * w * w)) % 4 = 0 THEN <<0, 0, lo, hi>>
       ELSE <<lo, hi>>

SampleRoot(k) == 1 + (Rnd(k, 2) % MaxNfaState)

\* The edges of graph k as <<source, edge>>, in the order generated; the
\* first one leaves the root.
SampleEdges(k) ==
    LET cnt == MaxEdges - (Rnd(k, 1) % 3)
    IN [e \in 1..cnt |->
          <<IF e = 1 THEN SampleRoot(k) ELSE 1 + (Rnd(k, 3 * e) % MaxNfaState),
            Edge(LabelOf(Rnd(k, 3 * e + 1)),
                 1 + (Rnd(k, 3 * e + 2) % MaxNfaState))>>]

RECURSIVE EdgesFrom(_, _)
\* The edges of the list es that leave node i, in order.
EdgesFrom(es, i) ==
    IF es = <<>> THEN <<>>
    ELSE IF Head(es)[1] = i THEN <<Head(es)[2]>> \o EdgesFrom(Tail(es), i)
    ELSE EdgesFrom(Tail(es), i)

SampleNfa(k) ==
    [n |-> MaxNfaState,
     root |-> SampleRoot(k),
     F |-> [i \in 1..MaxNfaState |-> Rnd(k, 3 * MaxEdges + 2 + i) % 3 = 0],
     T |-> [i \in 1..MaxNfaState |-> EdgesFrom(SampleEdges(k), i)]]

Nfas == SeqToSet(NamedNfas) \cup {SampleNfa(k) : k \in 0..(MaxSample - 1)}

\* An input expression: regexp.Compile accepts it or not, nfa.New compiles it
\* or not, and its NFA when both do.
NoNfa == MkNfa(1, {}, << <<>> >>)
Exprs ==
    {[valid |-> FALSE, nfaOk |-> FALSE, nfa |-> NoNfa],
     [valid |-> TRUE, nfaOk |-> FALSE, nfa |-> NoNfa]}
    \cup {[valid |-> TRUE, nfaOk |-> TRUE, nfa |-> n] : n \in Nfas}

\* ------------------------------------------------------------- package dfa
\* Strings are sequences of one-character strings.
Digit(d) == <<"0", "1", "2", "3", "4", "5", "6", "7", "8", "9">>[d + 1]

RECURSIVE Itoa(_)
\* strconv.Itoa for a natural number (state ids are never negative).
Itoa(i) == IF i < 10 THEN <<Digit(i)>> ELSE Itoa(i \div 10) \o <<Digit(i % 10)>>

RECURSIVE Join(_, _)
\* strings.Join
Join(strs, sep) ==
    IF strs = <<>> THEN <<>>
    ELSE IF Len(strs) = 1 THEN strs[1]
    ELSE strs[1] \o sep \o Join(Tail(strs), sep)

intsToStrings(a) == [k \in 1..Len(a) |-> Itoa(a[k])]

makeLabel(a) == Join(intsToStrings(a), <<",">>)

\* labelFromClosure from the first node of cls alone, without the set and
\* the sort over all of them.
labelFromClosureFirst(cls) == IF cls = <<>> THEN makeLabel(<<>>)
                              ELSE makeLabel(<<cls[1]>>)

\* labelFromClosure: the state ids of cls, deduplicated (the map m) and
\* sorted, joined by commas.
labelFromClosure(cls) == makeLabel(SetToSortedSeq(SeqToSet(cls)))

RECURSIVE recursiveClosure(_, _, _)
RECURSIVE recursiveClosureEdges(_, _, _, _, _)
\* recursiveClosure that returns the node, not nil, when it is visited.
recursiveClosureAgain(nfa, node, seen) ==
    IF node \in seen THEN [cls |-> <<node>>, seen |-> seen]
    ELSE recursiveClosureEdges(nfa, node, 1, <<node>>, seen \cup {node})

\* recursiveClosure returns the closure list and the visited map it updated.
recursiveClosure(nfa, node, seen) ==
    IF node \in seen THEN [cls |-> <<>>, seen |-> seen]
    ELSE recursiveClosureEdges(nfa, node, 1, <<node>>, seen \cup {node})

\* The loop over node.T of recursiveClosure, from edge k on.
recursiveClosureEdges(nfa, node, k, cls, seen) ==
    IF k > Len(nfa.T[node]) THEN [cls |-> cls, seen |-> seen]
    ELSE LET t == nfa.T[node][k]
         IN IF t.R = <<>>
            THEN LET r == recursiveClosure(nfa, t.N, seen)
                 IN recursiveClosureEdges(nfa, node, k + 1, cls \o r.cls, r.seen)
            ELSE recursiveClosureEdges(nfa, node, k + 1, cls, seen)

\* A Go map is a function on the set of its keys.
EmptyMap == <<>>
MapPut(m, k, v) == [x \in (DOMAIN m) \cup {k} |-> IF x = k THEN v ELSE m[x]]

\* closure returns the closure list and the cache after the call.
closure(nfa, node, cache) ==
    IF node \in DOMAIN cache THEN [cls |-> cache[node], cache |-> cache]
    ELSE LET cls == recursiveClosure(nfa, node, {}).cls
         IN [cls |-> cls, cache |-> MapPut(cache, node, cls)]

RECURSIVE canReachFinal(_, _, _)
RECURSIVE canReachFinalEdges(_, _, _, _)
\* canReachFinal returns its answer and the visited map it updated.
canReachFinal(nfa, node, seen) ==
    IF nfa.F[node] THEN [ok |-> TRUE, seen |-> seen]
    ELSE IF node \in seen THEN [ok |-> FALSE, seen |-> seen]
    ELSE canReachFinalEdges(nfa, node, 1, seen \cup {node})

canReachFinalEdges(nfa, node, k, seen) ==
    IF k > Len(nfa.T[node]) THEN [ok |-> FALSE, seen |-> seen]
    ELSE LET t == nfa.T[node][k]
         IN IF t.R = <<>>
            THEN LET r == canReachFinal(nfa, t.N, seen)
                 IN IF r.ok THEN r
                    ELSE canReachFinalEdges(nfa, node, k + 1, r.seen)
            ELSE canReachFinalEdges(nfa, node, k + 1, seen)

RECURSIVE isFinalFrom(_, _, _, _)
isFinalFrom(nfa, cls, k, seen) ==
    IF k > Len(cls) THEN FALSE
    ELSE LET r == canReachFinal(nfa, cls[k], seen)
         IN IF r.ok THEN TRUE ELSE isFinalFrom(nfa, cls, k + 1, r.seen)

\* isFinal that asks canReachFinal of the first closure node alone.
isFinalHeadOnly(nfa, cls) ==
    cls # <<>> /\ canReachFinal(nfa, cls[1], {}).ok

isFinal(nfa, cls) == isFinalFrom(nfa, cls, 1, {})

\* union that returns its first argument whatever the number of arguments.
unionFirstOnly(closures) ==
    IF closures = <<>> THEN {<<>>} ELSE {closures[1]}

RECURSIVE AllOrders(_)
\* The orders in which Go's map iteration can yield the keys of a map with
\* the key set S (lines 190-193): every order, the language leaves it open.
AllOrders(S) ==
    IF S = {} THEN {<<>>}
    ELSE UNION {{<<h>> \o r : r \in AllOrders(S \ {h})} : h \in S}

\* union: the one argument itself, or else the distinct nodes of all the
\* arguments in the order Go's map iteration yields them, which is
\* unspecified: any order of them is a possible result.
union(closures) ==
    IF Len(closures) = 1 THEN {closures[1]}
    ELSE AllOrders(UNION {SeqToSet(closures[k]) : k \in 1..Len(closures)})

RECURSIVE closuresForEdges(_, _, _, _, _)
\* The two loops of closuresForRange over the edges of the closure nodes,
\* flattened: edges is every c.T in order.
closuresForEdges(nfa, edges, rr, cache, closures) ==
    IF edges = <<>> THEN [closures |-> closures, cache |-> cache]
    ELSE LET t == Head(edges)
         IN IF Contains(t.R, rr)
            THEN LET r == closure(nfa, t.N, cache)
                 IN closuresForEdges(nfa, Tail(edges), rr, r.cache,
                                     Append(closures, r.cls))
            ELSE closuresForEdges(nfa, Tail(edges), rr, cache, closures)

\* The edges leaving the NFA nodes of a closure list, in order.
EdgesOf(nfa, cls) == FlattenSeq([k \in 1..Len(cls) |-> nfa.T[cls[k]]])

closuresForRange(nfa, n, rr, cache) ==
    closuresForEdges(nfa, EdgesOf(nfa, n.closures), rr, cache, <<>>)

\* A dfa.Node; a *Node is the node's index in the build's allocation order.
NewNode(state, final, label, cls) ==
    [State |-> state, Final |-> final, Transitions |-> <<>>,
     label |-> label, closures |-> cls]

\* The context NewFromNFA creates.
NewContext == [state |-> 0, nodesByLabel |-> EmptyMap, closureCache |-> EmptyMap]

\* An activation record whose pairs are the edge labels as they come, without
\* runerange.Split.
NewFrameNoSplit(nfa, ptr, node) ==
    [node |-> ptr,
     pairs |-> FlattenSeq([k \in 1..Len(EdgesOf(nfa, node.closures)) |->
                             EdgesOf(nfa, node.closures)[k].R]),
     i |-> 0,
     m |-> EmptyMap]

\* The activation record constructSubset(root, ctx) starts with: the ranges
\* of the edges of root.closures split into pairs, the cursor i and the map m.
NewFrame(nfa, ptr, node) ==
    [node |-> ptr,
     pairs |-> Split([k \in 1..Len(EdgesOf(nfa, node.closures)) |->
                        EdgesOf(nfa, node.closures)[k].R]),
     i |-> 0,
     m |-> EmptyMap]

MapGet(m, k, default) == IF k \in DOMAIN m THEN m[k] ELSE default

\* firstNode without the entry in the label table (line 279).
firstNodeUnregistered(nfa, ctx) ==
    LET r == closure(nfa, nfa.root, ctx.closureCache)
        label == labelFromClosure(r.cls)
    IN [node |-> NewNode(ctx.state + 1, isFinal(nfa, r.cls), label, r.cls),
        ptr |-> 1,
        ctx |-> [state |-> ctx.state + 1,
                 nodesByLabel |-> ctx.nodesByLabel,
                 closureCache |-> r.cache]]

\* firstNode: the root DFA node, numbered and entered in the label table.
\* Returns the node, its pointer and the context after the call.
firstNode(nfa, ctx) ==
    LET r == closure(nfa, nfa.root, ctx.closureCache)
        label == labelFromClosure(r.cls)
    IN [node |-> NewNode(ctx.state + 1, isFinal(nfa, r.cls), label, r.cls),
        ptr |-> 1,
        ctx |-> [state |-> ctx.state + 1,
                 nodesByLabel |-> MapPut(ctx.nodesByLabel, label, 1),
                 closureCache |-> r.cache]]

\* The comparison function constructSubset hands to sort.Slice.
transitionLess(a, b) ==
    IF Len(a.closures) > 0 /\ Len(b.closures) > 0
    THEN a.closures[1] < b.closures[1]
    ELSE a.State < b.State

RECURSIVE SortOutcomes(_, _)
\* What sort.Slice may leave of the entries of the map m (in the unspecified
\* order the range loop yields them): every arrangement in which no element
\* is less than one before it.  sort.Slice is not stable.
SortOutcomes(heap, entries) ==
    IF entries = {} THEN {<<>>}
    ELSE UNION {{<<x>> \o t : t \in SortOutcomes(heap, entries \ {x})} :
                x \in {y \in entries :
                         \A z \in entries :
                            ~transitionLess(heap[z.Node], heap[y.Node])}}

\* The entries of the map m of constructSubset as transitions.
MapEntries(m) == {[RuneRanges |-> m[p], Node |-> p] : p \in DOMAIN m}

\* --------------------------------------------------- package intersection
\* nodeName: fmt.Sprintf("%d_%d", node1.State, node2.State)
nodeName(node1, node2) == Itoa(node1.State) \o <<"_">> \o Itoa(node2.State)

\* createNode with Final computed by || instead of &&.
createNodeEither(heap, p1, p2) ==
    [Name |-> nodeName(heap[1][p1], heap[2][p2]),
     Node1 |-> p1,
     Node2 |-> p2,
     Final |-> heap[1][p1].Final \/ heap[2][p2].Final]

\* createNode with Final taken from the first node alone.
createNodeFirstOnly(heap, p1, p2) ==
    [Name |-> nodeName(heap[1][p1], heap[2][p2]),
     Node1 |-> p1,
     Node2 |-> p2,
     Final |-> heap[1][p1].Final]

\* createNode, for the nodes at p1 in the first DFA and p2 in the second.
createNode(heap, p1, p2) ==
    [Name |-> nodeName(heap[1][p1], heap[2][p2]),
     Node1 |-> p1,
     Node2 |-> p2,
     Final |-> heap[1][p1].Final /\ heap[2][p2].Final]

findOverlapRanges(trans1, trans2) ==
    FlattenSeq([a \in 1..Len(trans1) |->
        FlattenSeq([b \in 1..Len(trans2) |->
            IF Overlaps(trans1[a].RuneRanges, trans2[b].RuneRanges)
            THEN <<[Range |-> findOverlap(trans1[a].RuneRanges,
                                          trans2[b].RuneRanges),
                    Node1 |-> trans1[a].Node,
                    Node2 |-> trans2[b].Node]>>
            ELSE <<>>])])

\* findNextNodes without the test of runerange.Overlaps at line 123.
findNextNodesAll(node, r) ==
    [k \in 1..Len(node.Transitions) |-> node.Transitions[k].Node]

findNextNodes(node, r) ==
    FlattenSeq([k \in 1..Len(node.Transitions) |->
        IF Overlaps(node.Transitions[k].RuneRanges, r)
        THEN <<node.Transitions[k].Node>>
        ELSE <<>>])

\* The expansion of dfs following the first overlap range alone.
SuccessorsFirstOnly(heap, node, seen) ==
    LET n1 == heap[1][node.Node1]
        n2 == heap[2][node.Node2]
        ranges == findOverlapRanges(n1.Transitions, n2.Transitions)
    IN IF ranges = <<>> THEN <<>>
       ELSE LET tmpNode == createNode(heap, ranges[1].Node1, ranges[1].Node2)
            IN IF tmpNode.Name \notin seen THEN <<tmpNode>> ELSE <<>>

\* The combine nodes one expansion of dfs appends to the stack, in order.
Successors(heap, node, seen) ==
    LET n1 == heap[1][node.Node1]
        n2 == heap[2][node.Node2]
        ranges == findOverlapRanges(n1.Transitions, n2.Transitions)
    IN FlattenSeq([k \in 1..Len(ranges) |->
         LET nextNodes1 == findNextNodes(n1, ranges[k].Range)
             nextNodes2 == findNextNodes(n2, ranges[k].Range)
         IN FlattenSeq([a \in 1..Len(nextNodes1) |->
              FlattenSeq([b \in 1..Len(nextNodes2) |->
                 LET tmpNode == createNode(heap, nextNodes1[a], nextNodes2[b])
                 IN IF tmpNode.Name \notin seen THEN <<tmpNode>> ELSE <<>>])])])

\* ------------------------------------------------- one HasIntersection call
\* The state of one call: pc is the place in HasIntersection (convert2,
\* build2: convert2Dfa(expr2); convert1, build1: convert2Dfa(expr1); search:
\* line 52; dfs: the loop of dfs; returned; exited: the process has ended),
\* expr the arguments <<expr1, expr2>>, heap[s] the DFA nodes built for
\* expression s in allocation order, root[s] the pointer NewFromNFA
\* returned, ctx and frames the build context and the activations of
\* constructSubset, stack / visited / nodeMap the variables of dfs, result
\* and err the returned pair.  marked is a history of the pair-ids in the
\* order dfs marked them visited.
NoErr == [msg |-> <<>>, cause |-> <<>>]

InitCall(e1, e2) ==
    [pc |-> "convert2", expr |-> <<e1, e2>>,
     heap |-> << <<>>, <<>> >>, root |-> <<0, 0>>,
     ctx |-> NewContext, frames |-> <<>>,
     stack |-> <<>>, visited |-> {}, nodeMap |-> EmptyMap,
     result |-> FALSE, err |-> NoErr, marked |-> <<>>]

\* The expression being converted: expr2 first, then expr1.
Side(st) == IF st.pc \in {"convert2", "build2"} THEN 2 ELSE 1

Top(st) == st.frames[Len(st.frames)]

\* convert2Dfa up to the first activation of constructSubset: validation,
\* nfa.New, and NewFromNFA's context and first node.
ConvertOf(st) ==
    LET s == Side(st)
        e == st.expr[s]
        f == firstNode(e.nfa, NewContext)
    IN IF ~e.valid
       THEN [st EXCEPT !.pc = "returned", !.result = FALSE,
                       !.err = [msg |-> <<"invalid regexp: ", s>>,
                                cause |-> <<"regexp.Compile", s>>]]
       ELSE IF ~e.nfaOk
       THEN [st EXCEPT !.pc = "exited"]
       ELSE [st EXCEPT !.pc = IF s = 2 THEN "build2" ELSE "build1",
                       !.heap[s] = <<f.node>>,
                       !.root[s] = f.ptr,
                       !.ctx = f.ctx,
                       !.frames = <<NewFrame(e.nfa, f.ptr, f.node)>>]

\* The closure lists union may return for the block the top activation of
\* constructSubset is at.
BlockChoices(st) ==
    LET s == Side(st)
        f == Top(st)
    IN union(closuresForRange(st.expr[s].nfa, st.heap[s][f.node],
                              PairAt(f.pairs, f.i), st.ctx.closureCache).closures)

\* The loop body of constructSubset that recurses into a new node without
\* entering it in the label table (line 238).
BlockOfUnregistered(st, cls) ==
    LET s == Side(st)
        nfa == st.expr[s].nfa
        f == Top(st)
        rr == PairAt(f.pairs, f.i)
        cache == closuresForRange(nfa, st.heap[s][f.node], rr,
                                  st.ctx.closureCache).cache
        label == labelFromClosure(cls)
        isFinalState == isFinal(nfa, cls)
        ptr == Len(st.heap[s]) + 1
        node == NewNode(st.ctx.state + 1, isFinalState, label, cls)
    IN IF label \in DOMAIN st.ctx.nodesByLabel
       THEN LET n == st.ctx.nodesByLabel[label]
            IN [st EXCEPT !.ctx.closureCache = cache,
                          !.frames[Len(st.frames)].m =
                              MapPut(f.m, n, Sum(MapGet(f.m, n, <<>>), rr)),
                          !.frames[Len(st.frames)].i = f.i + 2]
       ELSE [st EXCEPT !.ctx = [state |-> st.ctx.state + 1,
                                nodesByLabel |-> st.ctx.nodesByLabel,
                                closureCache |-> cache],
                       !.heap[s] = Append(st.heap[s], node),
                       !.frames = Append(st.frames, NewFrame(nfa, ptr, node))]

\* One iteration of the loop of constructSubset (lines 223-242) in the top
\* activation, up to the recursive call when the target is new; cls is what
\* union returned.
BlockOf(st, cls) ==
    LET s == Side(st)
        nfa == st.expr[s].nfa
        f == Top(st)
        rr == PairAt(f.pairs, f.i)
        cache == closuresForRange(nfa, st.heap[s][f.node], rr,
                                  st.ctx.closureCache).cache
        label == labelFromClosure(cls)
        isFinalState == isFinal(nfa, cls)
        ptr == Len(st.heap[s]) + 1
        node == NewNode(st.ctx.state + 1, isFinalState, label, cls)
    IN IF label \in DOMAIN st.ctx.nodesByLabel
       THEN LET n == st.ctx.nodesByLabel[label]
            IN [st EXCEPT !.ctx.closureCache = cache,
                          !.frames[Len(st.frames)].m =
                              MapPut(f.m, n, Sum(MapGet(f.m, n, <<>>), rr)),
                          !.frames[Len(st.frames)].i = f.i + 2]
       ELSE [st EXCEPT !.ctx = [state |-> st.ctx.state + 1,
                                nodesByLabel |->
                                    MapPut(st.ctx.nodesByLabel, label, ptr),
                                closureCache |-> cache],
                       !.heap[s] = Append(st.heap[s], node),
                       !.frames = Append(st.frames, NewFrame(nfa, ptr, node))]

\* The orders in which the finished map m of the top activation may end up
\* in root.Transitions.
ReturnChoices(st) == SortOutcomes(st.heap[Side(st)], MapEntries(Top(st).m))

\* The end of constructSubset (lines 244-265) in the top activation: the
\* sorted transitions are appended to root.Transitions and the activation
\* returns, to line 241 of its caller or, from the first one, through
\* NewFromNFA and convert2Dfa to HasIntersection.
ReturnOf(st, transitions) ==
    LET s == Side(st)
        f == Top(st)
        d == Len(st.frames)
        heap2 == [st.heap EXCEPT ![s][f.node].Transitions = @ \o transitions]
    IN IF d > 1
       THEN LET g == st.frames[d - 1]
                rr == PairAt(g.pairs, g.i)
            IN [st EXCEPT !.heap = heap2,
                          !.frames =
                              [SubSeq(st.frames, 1, d - 1) EXCEPT
                                 ![d - 1].m = MapPut(g.m, f.node,
                                                Sum(MapGet(g.m, f.node, <<>>), rr)),
                                 ![d - 1].i = g.i + 2]]
       ELSE [st EXCEPT !.heap = heap2,
                       !.frames = <<>>,
                       !.ctx = NewContext,
                       !.pc = IF s = 2 THEN "convert1" ELSE "search"]

\* Lines 52-53 of HasIntersection and lines 80-81 of dfs; seen is the map
\* that make(map[string]bool) returns.
StartDfsOf(st, seen) ==
    [st EXCEPT !.pc = "dfs",
               !.nodeMap = EmptyMap,
               !.stack = <<createNode(st.heap, st.root[1], st.root[2])>>,
               !.visited = seen]

\* The loop of dfs without the test of visited[name] at lines 89-91.
DfsStepNoSkip(st) ==
    LET node == st.stack[Len(st.stack)]
        rest == SubSeq(st.stack, 1, Len(st.stack) - 1)
        name == nodeName(st.heap[1][node.Node1], st.heap[2][node.Node2])
        seen == st.visited \cup {name}
    IN IF node.Final
       THEN [st EXCEPT !.stack = rest, !.visited = seen,
                       !.nodeMap = MapPut(st.nodeMap, name, node),
                       !.marked = Append(st.marked, name),
                       !.pc = "returned", !.result = TRUE, !.err = NoErr]
       ELSE [st EXCEPT !.stack = rest \o Successors(st.heap, node, seen),
                       !.visited = seen,
                       !.nodeMap = MapPut(st.nodeMap, name, node),
                       !.marked = Append(st.marked, name)]

\* The loop of dfs with the test of node.Final (lines 95-97) after the
\* expansion (lines 99-114).
DfsStepLateFinal(st) ==
    LET node == st.stack[Len(st.stack)]
        rest == SubSeq(st.stack, 1, Len(st.stack) - 1)
        name == nodeName(st.heap[1][node.Node1], st.heap[2][node.Node2])
        seen == st.visited \cup {name}
        pushed == [st EXCEPT !.stack = rest \o Successors(st.heap, node, seen),
                             !.visited = seen,
                             !.nodeMap = MapPut(st.nodeMap, name, node),
                             !.marked = Append(st.marked, name)]
    IN IF name \in st.visited
       THEN [st EXCEPT !.stack = rest]
       ELSE IF node.Final
       THEN [pushed EXCEPT !.pc = "returned", !.result = TRUE, !.err = NoErr]
       ELSE pushed

\* One iteration of the loop of dfs (lines 84-114).
DfsStepOf(st) ==
    LET node == st.stack[Len(st.stack)]
        rest == SubSeq(st.stack, 1, Len(st.stack) - 1)
        name == nodeName(st.heap[1][node.Node1], st.heap[2][node.Node2])
        seen == st.visited \cup {name}
    IN IF name \in st.visited
       THEN [st EXCEPT !.stack = rest]
       ELSE IF node.Final
       THEN [st EXCEPT !.stack = rest, !.visited = seen,
                       !.nodeMap = MapPut(st.nodeMap, name, node),
                       !.marked = Append(st.marked, name),
                       !.pc = "returned", !.result = TRUE, !.err = NoErr]
       ELSE [st EXCEPT !.stack = rest \o Successors(st.heap, node, seen),
                       !.visited = seen,
                       !.nodeMap = MapPut(st.nodeMap, name, node),
                       !.marked = Append(st.marked, name)]

\* Line 117 of dfs: the stack is empty.
DfsExhaustedOf(st) ==
    [st EXCEPT !.pc = "returned", !.result = FALSE, !.err = NoErr]

\* The next step of a call that runs by itself in a fresh process, with one
\* fixed outcome wherever Go leaves the order open.
StepAlone(st) ==
    IF st.pc \in {"convert2", "convert1"} THEN ConvertOf(st)
    ELSE IF st.pc \in {"build2", "build1"}
    THEN IF Top(st).i < Len(Top(st).pairs)
         THEN BlockOf(st, CHOOSE cls \in BlockChoices(st) : TRUE)
         ELSE ReturnOf(st, CHOOSE t \in ReturnChoices(st) : TRUE)
    ELSE IF st.pc = "search" THEN StartDfsOf(st, {})
    ELSE IF st.stack # <<>> THEN DfsStepOf(st)
    ELSE DfsExhaustedOf(st)

RECURSIVE RunAlone(_)
\* The state in which a call ends when it runs by itself.
RunAlone(st) ==
    IF st.pc \in {"returned", "exited"} THEN st ELSE RunAlone(StepAlone(st))

\* ------------------------------------------------------------ the program
Calls == 1..2

VARIABLES
    calls,       \* calls[c]: the state of call c of HasIntersection
    dfaVisited,  \* the package-level map visited of package dfa (line 47)
    ov,          \* a call of findOverlap by itself: arguments and result
    pr           \* calls of Node.Print: the DFAs, the activations, the output

vars == <<calls, dfaVisited, ov, pr>>

\* No call of findOverlap by itself, no call of Node.Print.
OvIdle == [pc |-> "idle", range1 |-> <<>>, range2 |-> <<>>, result |-> <<>>]
PrIdle == [pc |-> "idle", dfas |-> <<>>, frames |-> <<>>, log |-> <<>>]

\* A call that is never made.
IdleCall == [InitCall(CHOOSE e \in Exprs : ~e.valid,
                      CHOOSE e \in Exprs : ~e.valid) EXCEPT !.pc = "idle"]

\* The inputs of the runs with two calls in flight: the two rejected
\* expressions and the NFAs of "", a and a*.
SmallExprs ==
    {e \in Exprs : ~e.nfaOk \/ e.nfa \in {NamedNfas[k] : k \in 1..3}}

\* One call, made in a fresh process.
Init ==
    /\ \E e1 \in Exprs, e2 \in Exprs :
          calls = [c \in Calls |-> IF c = 1 THEN InitCall(e1, e2) ELSE IdleCall]
    /\ dfaVisited = {}
    /\ ov = OvIdle
    /\ pr = PrIdle

\* Two calls made from two goroutines of one process.
InitTwo ==
    /\ \E e1 \in SmallExprs, e2 \in SmallExprs, e3 \in SmallExprs, e4 \in SmallExprs :
          calls = [c \in Calls |-> IF c = 1 THEN InitCall(e1, e2)
                                   ELSE InitCall(e3, e4)]
    /\ dfaVisited = {}
    /\ ov = OvIdle
    /\ pr = PrIdle

\* log.Fatal ends the process, and with it every call in flight.
ProcessAlive == \A c \in Calls : calls[c].pc # "exited"

\* A visited map that the two calls share instead of a fresh one.
NewVisitedShared(c) == calls[3 - c].visited

\* make(map[string]bool) at line 81 of dfs, in call c.
NewVisited(c) == {}

Convert(c) ==
    /\ ProcessAlive
    /\ calls[c].pc \in {"convert2", "convert1"}
    /\ calls' = [calls EXCEPT ![c] = ConvertOf(calls[c])]
    /\ UNCHANGED <<dfaVisited, ov, pr>>

ConstructBlock(c) ==
    /\ ProcessAlive
    /\ calls[c].pc \in {"build2", "build1"}
    /\ Top(calls[c]).i < Len(Top(calls[c]).pairs)
    /\ \E cls \in BlockChoices(calls[c]) :
          calls' = [calls EXCEPT ![c] = BlockOf(calls[c], cls)]
    /\ UNCHANGED <<dfaVisited, ov, pr>>

ConstructReturn(c) ==
    /\ ProcessAlive
    /\ calls[c].pc \in {"build2", "build1"}
    /\ Top(calls[c]).i >= Len(Top(calls[c]).pairs)
    /\ \E transitions \in ReturnChoices(calls[c]) :
          calls' = [calls EXCEPT ![c] = ReturnOf(calls[c], transitions)]
    /\ UNCHANGED <<dfaVisited, ov, pr>>

StartDfs(c) ==
    /\ ProcessAlive
    /\ calls[c].pc = "search"
    /\ calls' = [calls EXCEPT ![c] = StartDfsOf(calls[c], NewVisited(c))]
    /\ UNCHANGED <<dfaVisited, ov, pr>>

DfsStep(c) ==
    /\ ProcessAlive
    /\ calls[c].pc = "dfs"
    /\ calls[c].stack # <<>>
    /\ calls' = [calls EXCEPT ![c] = DfsStepOf(calls[c])]
    /\ UNCHANGED <<dfaVisited, ov, pr>>

DfsExhausted(c) ==
    /\ ProcessAlive
    /\ calls[c].pc = "dfs"
    /\ calls[c].stack = <<>>
    /\ calls' = [calls EXCEPT ![c] = DfsExhaustedOf(calls[c])]
    /\ UNCHANGED <<dfaVisited, ov, pr>>

Next ==
    \E c \in Calls :
        \/ Convert(c)
        \/ ConstructBlock(c)
        \/ ConstructReturn(c)
        \/ StartDfs(c)
        \/ DfsStep(c)
        \/ DfsExhausted(c)

Spec == Init /\ [][Next]_vars

SpecTwo == InitTwo /\ [][Next]_vars

\* ---- findOverlap by itself ----

MaxPairs == 2

\* A sorted, non-overlapping rune-range list: each pair has lo <= hi and
\* each pair starts after the pair before it ends.
IsRangeList(rr) ==
    /\ Len(rr) % 2 = 0
    /\ \A k \in 1..(Len(rr) \div 2) : rr[2 * k - 1] <= rr[2 * k]
    /\ \A k \in 1..(Len(rr) \div 2 - 1) : rr[2 * k] < rr[2 * k + 1]

RangeLists ==
    {rr \in UNION {[1..(2 * k) -> Runes] : k \in 0..MaxPairs} : IsRangeList(rr)}

InitOverlap ==
    /\ calls = [c \in Calls |-> IdleCall]
    /\ dfaVisited = {}
    /\ pr = PrIdle
    /\ \E a \in RangeLists, b \in RangeLists :
          ov = [pc |-> "call", range1 |-> a, range2 |-> b, result |-> <<>>]

\* findOverlap(range1, range2), lines 153-171.
FindOverlapCall ==
    /\ ov.pc = "call"
    /\ ov' = [ov EXCEPT !.pc = "done",
                        !.result = findOverlap(ov.range1, ov.range2)]
    /\ UNCHANGED <<calls, dfaVisited, pr>>

NextOverlap == FindOverlapCall

SpecOverlap == InitOverlap /\ [][NextOverlap]_vars

\* ---- Node.Print ----

MaxPrints == 3

RECURSIVE BuildOutcomes(_)
\* The states in which the build of the second expression of a call can
\* end, over every order that union and the sort of constructSubset can
\* produce.
BuildOutcomes(st) ==
    IF st.pc # "build2" THEN {st}
    ELSE IF Top(st).i < Len(Top(st).pairs)
    THEN UNION {BuildOutcomes(BlockOf(st, cls)) : cls \in BlockChoices(st)}
    ELSE UNION {BuildOutcomes(ReturnOf(st, t)) : t \in ReturnChoices(st)}

\* The expressions whose DFAs are printed: a, a*, a*ba+, [ab]*a[ab].
PrintExprs ==
    {[valid |-> TRUE, nfaOk |-> TRUE, nfa |-> NamedNfas[k]] : k \in {2, 3, 5, 12}}

\* The DFAs NewFromNFA returns for them: the nodes and the root.
PrintDfas ==
    UNION {{[nodes |-> st.heap[2], root |-> st.root[2]] :
               st \in BuildOutcomes(ConvertOf(InitCall(e, e)))} : e \in PrintExprs}

\* Two DFAs are in memory, the package-level map visited is empty and no
\* call of Print has been made.
InitPrint ==
    /\ calls = [c \in Calls |-> IdleCall]
    /\ dfaVisited = {}
    /\ ov = OvIdle
    /\ \E d1 \in PrintDfas, d2 \in PrintDfas :
          pr = [pc |-> "run", dfas |-> <<d1, d2>>, frames |-> <<>>, log |-> <<>>]

\* The program calls Print on the root of DFA d: line 50 prints the node.
PrintCall(d) ==
    /\ pr.pc = "run"
    /\ pr.frames = <<>>
    /\ Len(pr.log) < MaxPrints
    /\ pr' = [pr EXCEPT
                !.frames = <<[d |-> d, node |-> pr.dfas[d].root, k |-> 1]>>,
                !.log = Append(pr.log, [d |-> d, nodes |-> <<pr.dfas[d].root>>])]
    /\ UNCHANGED <<calls, dfaVisited, ov>>

\* One iteration of the loop of Print (lines 52-61) in the innermost
\* activation: a target in visited is skipped; another one is entered in
\* visited and Print is called on it, which prints it (line 50). The keys of
\* visited are node pointers: a DFA and a position in it.
PrintVisit ==
    /\ pr.pc = "run"
    /\ pr.frames # <<>>
    /\ LET f == pr.frames[Len(pr.frames)]
           trans == pr.dfas[f.d].nodes[f.node].Transitions
       IN /\ f.k <= Len(trans)
          /\ LET t == trans[f.k]
                 stepped == [pr.frames EXCEPT ![Len(pr.frames)].k = f.k + 1]
             IN IF <<f.d, t.Node>> \in dfaVisited
                THEN /\ pr' = [pr EXCEPT !.frames = stepped]
                     /\ UNCHANGED dfaVisited
                ELSE /\ dfaVisited' = dfaVisited \cup {<<f.d, t.Node>>}
                     /\ pr' = [pr EXCEPT
                                 !.frames = Append(stepped,
                                     [d |-> f.d, node |-> t.Node, k |-> 1]),
                                 !.log[Len(pr.log)].nodes =
                                     Append(pr.log[Len(pr.log)].nodes, t.Node)]
    /\ UNCHANGED <<calls, ov>>

\* The loop of the innermost activation of Print is over: it returns.
PrintReturn ==
    /\ pr.pc = "run"
    /\ pr.frames # <<>>
    /\ LET f == pr.frames[Len(pr.frames)]
       IN f.k > Len(pr.dfas[f.d].nodes[f.node].Transitions)
    /\ pr' = [pr EXCEPT !.frames = SubSeq(pr.frames, 1, Len(pr.frames) - 1)]
    /\ UNCHANGED <<calls, dfaVisited, ov>>

NextPrint ==
    \/ \E d \in 1..2 : PrintCall(d)
    \/ PrintVisit
    \/ PrintReturn

SpecPrint == InitPrint /\ [][NextPrint]_vars

\* ----------------------------------------------- reference: the languages
\* Largest length of the input strings the automata are run on.
MaxLen == 3

RECURSIVE EpsClosure(_, _)
\* The NFA nodes reachable from the set S by epsilon edges alone.
EpsClosure(nfa, S) ==
    LET more == S \cup UNION {{nfa.T[n][k].N : k \in
                                 {j \in 1..Len(nfa.T[n]) : nfa.T[n][j].R = <<>>}} :
                              n \in S}
    IN IF more = S THEN S ELSE EpsClosure(nfa, more)

\* The set of NFA nodes after reading character ch in the set S.
NfaStep(nfa, S, ch) ==
    EpsClosure(nfa, UNION {{nfa.T[n][k].N : k \in
                              {j \in 1..Len(nfa.T[n]) : ch \in Chars(nfa.T[n][j].R)}} :
                           n \in S})

NfaStart(nfa) == EpsClosure(nfa, {nfa.root})

NfaAccepting(nfa, S) == \E n \in S : nfa.F[n]

RECURSIVE NfaRun(_, _, _)
NfaRun(nfa, S, w) ==
    IF w = <<>> THEN S ELSE NfaRun(nfa, NfaStep(nfa, S, Head(w)), Tail(w))

\* The NFA accepts the string w.
NfaAccepts(nfa, w) == NfaAccepting(nfa, NfaRun(nfa, NfaStart(nfa), w))

RECURSIVE SetPairsFrom(_, _, _)
\* The pairs of NFA node sets that the two NFAs reach on a common string.
SetPairsFrom(nfa1, nfa2, P) ==
    LET more == P \cup {<<NfaStep(nfa1, p[1], ch), NfaStep(nfa2, p[2], ch)>> :
                           <<p, ch>> \in P \X Runes}
    IN IF more = P THEN P ELSE SetPairsFrom(nfa1, nfa2, more)

\* Some string is accepted by both NFAs.
CommonString(nfa1, nfa2) ==
    \E p \in SetPairsFrom(nfa1, nfa2, {<<NfaStart(nfa1), NfaStart(nfa2)>>}) :
        NfaAccepting(nfa1, p[1]) /\ NfaAccepting(nfa2, p[2])

\* Node.NextState for the one-character range r = <<ch, ch>>: the target of
\* the first transition whose ranges contain it, 0 for nil.
NextState(n, r) ==
    LET hits == {k \in 1..Len(n.Transitions) :
                    Contains(n.Transitions[k].RuneRanges, r)}
    IN IF hits = {} THEN 0
       ELSE n.Transitions[CHOOSE k \in hits : \A j \in hits : k <= j].Node

RECURSIVE DfaRun(_, _, _)
\* The node a DFA is in after reading w from the node at ptr, 0 when stuck.
DfaRun(dfa, ptr, w) ==
    IF ptr = 0 \/ w = <<>> THEN ptr
    ELSE DfaRun(dfa, NextState(dfa[ptr], <<Head(w), Head(w)>>), Tail(w))

DfaAccepts(dfa, root, w) ==
    LET p == DfaRun(dfa, root, w) IN p # 0 /\ dfa[p].Final

Strings == UNION {[1..n -> Runes] : n \in 0..MaxLen}

RECURSIVE RunPairs(_, _, _, _)
\* For the strings of length n, the pairs <<p, S>> of the DFA node the DFA
\* ends in from root (0 when stuck) and the set of nodes the NFA ends in.
RunPairs(nfa, dfa, root, n) ==
    IF n = 0 THEN {<<root, NfaStart(nfa)>>}
    ELSE {<<DfaRun(dfa, ps[1], <<ch>>), NfaStep(nfa, ps[2], ch)>> :
             <<ps, ch>> \in RunPairs(nfa, dfa, root, n - 1) \X Runes}

\* The pairs of DFA nodes a step of the product leads to from the pair p:
\* each side follows a transition, and the two transitions share a character.
PairSteps(heap, p) ==
    LET t1 == heap[1][p[1]].Transitions
        t2 == heap[2][p[2]].Transitions
    IN {<<t1[a].Node, t2[b].Node>> : <<a, b>> \in
          {<<a, b>> \in (1..Len(t1)) \X (1..Len(t2)) :
              Chars(t1[a].RuneRanges) \cap Chars(t2[b].RuneRanges) # {}}}

RECURSIVE ReachablePairs(_, _)
ReachablePairs(heap, P) ==
    LET more == P \cup UNION {PairSteps(heap, p) : p \in P}
    IN IF more = P THEN P ELSE ReachablePairs(heap, more)

\* A jointly final pair is reachable from the pair of roots.
JointFinalReachable(st) ==
    \E p \in ReachablePairs(st.heap, {<<st.root[1], st.root[2]>>}) :
        st.heap[1][p[1]].Final /\ st.heap[2][p[2]].Final

\* The DFA of expression s of the call is complete: NewFromNFA has returned.
Built(st, s) ==
    /\ st.root[s] # 0
    /\ IF s = 2 THEN st.pc \in {"convert1", "build1", "search", "dfs", "returned"}
       ELSE st.pc \in {"search", "dfs", "returned"}

\* The call returned a verdict of dfs.
Answered(st) == st.pc = "returned" /\ st.err = NoErr

\* ------------------------------------------------------------------ claims

\* C1: a call that returns a verdict returns true exactly when a pair of
\* final nodes is reachable from the pair of roots by steps in which both
\* DFAs follow transitions whose ranges share a character, and exactly when
\* some string is accepted by both NFAs.
C1_DfsDecidesIntersection ==
    \A c \in Calls :
        Answered(calls[c]) =>
            /\ calls[c].result = JointFinalReachable(calls[c])
            /\ calls[c].result = CommonString(calls[c].expr[1].nfa,
                                              calls[c].expr[2].nfa)

\* A search that found a common string after at least four expansions.
C1_Witness ==
    /\ Answered(calls[1])
    /\ calls[1].result
    /\ Len(calls[1].marked) >= 4

\* A search that ran over at least four pairs and found no common string.
C1_WitnessFalse ==
    /\ Answered(calls[1])
    /\ ~calls[1].result
    /\ Len(calls[1].marked) >= 4

\* An expression of the call is rejected by regexp.Compile.
SomeInvalid(st) == ~st.expr[1].valid \/ ~st.expr[2].valid

\* The first expression, in the order of conversion, that regexp.Compile
\* accepts and nfa.New rejects before any other failure; 0 if there is none.
CompileFailure(st) ==
    IF ~st.expr[2].valid THEN 0
    ELSE IF ~st.expr[2].nfaOk THEN 2
    ELSE IF st.expr[1].valid /\ ~st.expr[1].nfaOk THEN 1
    ELSE 0

\* C2: a call with an expression that fails validation returns false with an
\* error that names the expression and carries the syntax diagnostic; it
\* runs no search and never ends otherwise.
C2_InvalidReported ==
    \A c \in Calls :
        (calls[c].pc # "idle" /\ SomeInvalid(calls[c])) =>
            /\ calls[c].pc \notin {"search", "dfs", "exited"}
            /\ calls[c].marked = <<>>
            /\ calls[c].pc = "returned" =>
                  /\ ~calls[c].result
                  /\ calls[c].err # NoErr
                  /\ \E s \in 1..2 :
                        /\ ~calls[c].expr[s].valid
                        /\ calls[c].err.msg = <<"invalid regexp: ", s>>
                        /\ calls[c].err.cause = <<"regexp.Compile", s>>

\* C3: a failure of nfa.New comes back to the caller as an error that wraps
\* it and names the side; the call never ends the process.
C3_CompileFailureReturned ==
    \A c \in Calls :
        /\ calls[c].pc # "exited"
        /\ (calls[c].pc = "returned" /\ CompileFailure(calls[c]) # 0) =>
              /\ ~calls[c].result
              /\ calls[c].err # NoErr
              /\ calls[c].err.cause = <<"nfa.New", CompileFailure(calls[c])>>

\* The sequence s holds no value twice.
NoDuplicates(s) == \A i \in 1..Len(s), j \in 1..Len(s) : s[i] = s[j] => i = j

\* The pair-ids dfs has expanded are distinct, they are the visited ones, and
\* there are no more of them than pairs of nodes of the two DFAs.
ExpandedOnce(st) ==
    /\ NoDuplicates(st.marked)
    /\ SeqToSet(st.marked) = st.visited
    /\ DOMAIN st.nodeMap = st.visited
    /\ Len(st.marked) <= Len(st.heap[1]) * Len(st.heap[2])

\* A step of the loop of dfs in call c either returns, or marks one more
\* pair-id visited, or leaves the visited ones alone and shortens the stack.
DfsProgress(c) ==
    (calls[c].pc = "dfs" /\ calls'[c] # calls[c]) =>
        \/ calls'[c].pc = "returned"
        \/ /\ calls'[c].pc = "dfs"
           /\ \/ /\ calls[c].visited \subseteq calls'[c].visited
                 /\ Cardinality(calls'[c].visited) = Cardinality(calls[c].visited) + 1
              \/ /\ calls'[c].visited = calls[c].visited
                 /\ Len(calls'[c].stack) = Len(calls[c].stack) - 1

\* C4: dfs halts: each pair-id is marked and expanded at most once, never
\* more of them than the product of the two node counts, a running search
\* can always take a step, and every step returns or brings the search
\* closer to the end (more pairs visited, or as many and a shorter stack).
C4_DfsHalts ==
    [][\A c \in Calls :
          /\ calls'[c].pc \in {"dfs", "returned"} => ExpandedOnce(calls'[c])
          /\ calls'[c].pc = "dfs" => ProcessAlive'
          /\ DfsProgress(c)]_vars

\* The stack of dfs holds one pair twice that is not visited yet.
C4_Witness ==
    /\ calls[1].pc = "dfs"
    /\ \E i \in 1..Len(calls[1].stack), j \in 1..Len(calls[1].stack) :
          /\ i < j
          /\ calls[1].stack[i].Name = calls[1].stack[j].Name
          /\ calls[1].stack[i].Name \notin calls[1].visited

\* C5: a call that returns a verdict returns the one the call with the two
\* expressions exchanged returns.
C5_Symmetric ==
    \A c \in Calls :
        Answered(calls[c]) =>
            calls[c].result =
                RunAlone(InitCall(calls[c].expr[2], calls[c].expr[1])).result

\* A search over two different expressions that found a common string after
\* at least three expansions.
C5_Witness ==
    /\ Answered(calls[1])
    /\ calls[1].expr[1] # calls[1].expr[2]
    /\ calls[1].result
    /\ Len(calls[1].marked) >= 3

RECURSIVE ReachableNodes(_, _)
\* The nodes of a DFA that transitions lead to from the nodes in P.
ReachableNodes(dfa, P) ==
    LET more == P \cup UNION {{dfa[p].Transitions[k].Node :
                                  k \in 1..Len(dfa[p].Transitions)} : p \in P}
    IN IF more = P THEN P ELSE ReachableNodes(dfa, more)

\* A Final node of the DFA can be reached from its root.
FinalReachable(dfa, root) == \E p \in ReachableNodes(dfa, {root}) : dfa[p].Final

\* C6: a call on one expression twice returns true exactly when the DFA of
\* the expression has a Final node reachable from its root, and so whenever
\* the expression accepts a string.
C6_Reflexive ==
    \A c \in Calls :
        (Answered(calls[c]) /\ calls[c].expr[1] = calls[c].expr[2]) =>
            /\ calls[c].result = FinalReachable(calls[c].heap[1], calls[c].root[1])
            /\ calls[c].result = FinalReachable(calls[c].heap[2], calls[c].root[2])
            /\ (\E w \in Strings : NfaAccepts(calls[c].expr[1].nfa, w)) =>
                  calls[c].result

\* A search over two builds of one expression that differ in the order of
\* their transitions, which found a common string after three expansions.
C6_Witness ==
    /\ Answered(calls[1])
    /\ calls[1].expr[1] = calls[1].expr[2]
    /\ calls[1].heap[1] # calls[1].heap[2]
    /\ calls[1].result
    /\ Len(calls[1].marked) >= 3

\* C7: whatever the other call does in between, a call returns the verdict
\* and the error it returns when it runs alone in a fresh process, its
\* visited set and node map hold the pair-ids it marked itself and no other,
\* and the package-level map of package dfa is left alone.
C7_CallsIndependent ==
    /\ dfaVisited = {}
    /\ \A c \in Calls :
          calls[c].pc = "returned" =>
             LET alone == RunAlone(InitCall(calls[c].expr[1], calls[c].expr[2]))
             IN /\ alone.pc = "returned"
                /\ calls[c].result = alone.result
                /\ calls[c].err = alone.err
                /\ calls[c].visited = SeqToSet(calls[c].marked)
                /\ DOMAIN calls[c].nodeMap = SeqToSet(calls[c].marked)

\* One call has returned true while the search of the other call is under
\* way with pairs marked.
C7_Witness ==
    /\ calls[1].pc = "returned"
    /\ calls[1].result
    /\ calls[2].pc = "dfs"
    /\ calls[2].visited # {}

\* The expression whose DFA NewFromNFA has just returned; 0 if none has.
JustBuilt(st) ==
    IF st.pc = "convert1" THEN 2 ELSE IF st.pc = "search" THEN 1 ELSE 0

\* C8: the DFA NewFromNFA returns accepts a string of up to MaxLen
\* characters exactly when the NFA does: after every such string the DFA is
\* stuck exactly when the NFA has no node left, and otherwise in the node
\* whose closures are the nodes the NFA is in.
C8_LanguageEquivalent ==
    \A c \in Calls :
        LET s == JustBuilt(calls[c])
            nfa == calls[c].expr[s].nfa
            dfa == calls[c].heap[s]
        IN s # 0 =>
            \A n \in 0..MaxLen :
                \A ps \in RunPairs(nfa, dfa, calls[c].root[s], n) :
                    /\ (ps[1] # 0 /\ dfa[ps[1]].Final) = NfaAccepting(nfa, ps[2])
                    /\ (ps[1] = 0) = (ps[2] = {})
                    /\ ps[1] # 0 => SeqToSet(dfa[ps[1]].closures) = ps[2]

\* A DFA of four nodes or more has been built, one of them for NFA nodes that
\* several edges lead to, and it accepts some strings and rejects others.
C8_Witness ==
    /\ calls[1].pc = "search"
    /\ Len(calls[1].heap[1]) >= 4
    /\ \E n \in 1..calls[1].expr[1].nfa.n :
          \E p \in 1..Len(calls[1].heap[1]) :
              /\ n \in SeqToSet(calls[1].heap[1][p].closures)
              /\ SeqToSet(calls[1].heap[1][p].closures) #
                    EpsClosure(calls[1].expr[1].nfa, {n})
    /\ \E w \in Strings : DfaAccepts(calls[1].heap[1], calls[1].root[1], w)
    /\ \E w \in Strings : ~DfaAccepts(calls[1].heap[1], calls[1].root[1], w)

\* The characters of the transitions of a DFA node.
TransitionChars(node) ==
    UNION {Chars(node.Transitions[k].RuneRanges) : k \in 1..Len(node.Transitions)}

\* The characters of the range labels of the edges that leave the NFA nodes
\* of a DFA node's closures.
LabelChars(nfa, node) ==
    UNION {Chars(EdgesOf(nfa, node.closures)[k].R) :
              k \in 1..Len(EdgesOf(nfa, node.closures))}

\* C9: in a DFA NewFromNFA returns, no two transitions of a node share a
\* character, so that a character has one transition at most, and together
\* the transitions of a node cover exactly the characters of the non-epsilon
\* labels on the edges of the node's closures.
C9_TransitionsPartition ==
    \A c \in Calls :
        LET s == JustBuilt(calls[c])
            nfa == calls[c].expr[s].nfa
            dfa == calls[c].heap[s]
        IN s # 0 =>
            \A p \in 1..Len(dfa) :
                /\ \A i \in 1..Len(dfa[p].Transitions),
                      j \in 1..Len(dfa[p].Transitions) :
                      i # j => Chars(dfa[p].Transitions[i].RuneRanges) \cap
                               Chars(dfa[p].Transitions[j].RuneRanges) = {}
                /\ \A ch \in Runes :
                      Cardinality({k \in 1..Len(dfa[p].Transitions) :
                          Contains(dfa[p].Transitions[k].RuneRanges, <<ch, ch>>)}) <= 1
                /\ TransitionChars(dfa[p]) = LabelChars(nfa, dfa[p])

\* A DFA has been built with a node of two transitions or more whose closures
\* have two edges with labels that overlap and differ.
C9_Witness ==
    /\ calls[1].pc = "search"
    /\ \E p \in 1..Len(calls[1].heap[1]) :
          LET node == calls[1].heap[1][p]
              edges == EdgesOf(calls[1].expr[1].nfa, node.closures)
          IN /\ Len(node.Transitions) >= 2
             /\ \E i \in 1..Len(edges), j \in 1..Len(edges) :
                   /\ Chars(edges[i].R) \cap Chars(edges[j].R) # {}
                   /\ Chars(edges[i].R) # Chars(edges[j].R)

\* C10: a build keeps one DFA node per canonical label: the label table maps
\* the label of every node to that node and holds nothing else, two nodes
\* have the same set of NFA state ids only if they are one node, and the
\* node created k-th has State k, the root 1.
C10_OneNodePerLabel ==
    \A c \in Calls :
        /\ \A s \in 1..2 :
              LET dfa == calls[c].heap[s]
              IN /\ \A p \in 1..Len(dfa) :
                       /\ dfa[p].State = p
                       /\ dfa[p].label = labelFromClosure(dfa[p].closures)
                       /\ \A k \in 1..Len(dfa[p].Transitions) :
                             dfa[p].Transitions[k].Node \in 1..Len(dfa)
                 /\ \A p \in 1..Len(dfa), q \in 1..Len(dfa) :
                       (SeqToSet(dfa[p].closures) = SeqToSet(dfa[q].closures))
                           = (p = q)
                 /\ \A p \in 1..Len(dfa), q \in 1..Len(dfa) :
                       (dfa[p].label = dfa[q].label) = (p = q)
                 /\ Built(calls[c], s) => calls[c].root[s] = 1
        /\ calls[c].pc \in {"build2", "build1"} =>
              LET dfa == calls[c].heap[Side(calls[c])]
                  table == calls[c].ctx.nodesByLabel
              IN /\ calls[c].ctx.state = Len(dfa)
                 /\ DOMAIN table = {dfa[p].label : p \in 1..Len(dfa)}
                 /\ \A p \in 1..Len(dfa) : table[dfa[p].label] = p
                 /\ \A d \in 1..Len(calls[c].frames) :
                       DOMAIN calls[c].frames[d].m \subseteq 1..Len(dfa)

\* A build of three nodes or more in which a block of a node led back to the
\* label of that node, found in the label table.
C10_Witness ==
    /\ calls[1].pc \in {"build2", "build1"}
    /\ Len(calls[1].heap[Side(calls[1])]) >= 3
    /\ \E d \in 1..Len(calls[1].frames) :
          calls[1].frames[d].node \in DOMAIN calls[1].frames[d].m

\* C11: every DFA node, the root included, is Final exactly when an NFA node
\* of its closures is final or reaches a final NFA node by epsilon edges.
C11_FinalIffReachesFinal ==
    \A c \in Calls :
        \A s \in 1..2 :
            \A p \in 1..Len(calls[c].heap[s]) :
                LET nfa == calls[c].expr[s].nfa
                    node == calls[c].heap[s][p]
                IN node.Final =
                      \E n \in EpsClosure(nfa, SeqToSet(node.closures)) : nfa.F[n]

\* A Final DFA node, not the root, whose first closure node is not final and
\* whose closures hold an NFA node on an epsilon cycle.
C11_Witness ==
    \E p \in 2..Len(calls[1].heap[1]) :
        LET nfa == calls[1].expr[1].nfa
            node == calls[1].heap[1][p]
        IN /\ node.Final
           /\ ~nfa.F[node.closures[1]]
           /\ \E n \in SeqToSet(node.closures) :
                 \E k \in 1..Len(nfa.T[n]) :
                    /\ nfa.T[n][k].R = <<>>
                    /\ n \in EpsClosure(nfa, {nfa.T[n][k].N})

RECURSIVE BlocksLeft(_, _)
\* The iterations the activations of constructSubset from the d-th down
\* still have to make, plus one for the return of each.
BlocksLeft(frames, d) ==
    IF d = 0 THEN 0
    ELSE (Len(frames[d].pairs) - frames[d].i) + 1 + BlocksLeft(frames, d - 1)

RECURSIVE Pow2(_)
\* Two to the power n.
Pow2(n) == IF n = 0 THEN 1 ELSE 2 * Pow2(n - 1)

\* A step of the build of call c either starts constructSubset for a node
\* created in that step, whose label was not in the label table and now is,
\* or creates no node and leaves fewer iterations to make.
BuildProgress(c) ==
    LET st == calls[c]
        nx == calls'[c]
        s == Side(st)
    IN (st.pc \in {"build2", "build1"} /\ nx # st) =>
          IF Len(nx.frames) > Len(st.frames)
          THEN LET ptr == Len(st.heap[s]) + 1
                   label == nx.heap[s][ptr].label
               IN /\ Len(nx.frames) = Len(st.frames) + 1
                  /\ Len(nx.heap[s]) = ptr
                  /\ Top(nx).node = ptr
                  /\ label \notin DOMAIN st.ctx.nodesByLabel
                  /\ label \in DOMAIN nx.ctx.nodesByLabel
                  /\ nx.ctx.nodesByLabel[label] = ptr
                  /\ ptr < Pow2(st.expr[s].nfa.n)
          ELSE /\ Len(nx.heap[s]) = Len(st.heap[s])
               /\ BlocksLeft(nx.frames, Len(nx.frames)) <
                     BlocksLeft(st.frames, Len(st.frames))
               /\ \A d \in 1..Len(nx.frames) : nx.frames[d].node = st.frames[d].node

\* C12: the build halts: constructSubset starts once for each node, when the
\* node is created and entered in the label table, never for a label already
\* in the table; the nodes number fewer than the sets of NFA nodes, and every
\* other step leaves fewer iterations to make.
C12_BuildHalts ==
    [][\A c \in Calls :
          /\ BuildProgress(c)
          /\ calls'[c].pc \in {"build2", "build1"} =>
                /\ ProcessAlive'
                /\ NoDuplicates([d \in 1..Len(calls'[c].frames) |->
                                    calls'[c].frames[d].node])]_vars

\* The activation on top has found, in the label table, the label of a node
\* whose own activation is still under way further down: a cycle of the NFA.
C12_Witness ==
    /\ calls[1].pc \in {"build2", "build1"}
    /\ Len(calls[1].frames) >= 3
    /\ \E d \in 1..(Len(calls[1].frames) - 1) :
          calls[1].frames[d].node \in DOMAIN Top(calls[1]).m

\* The smallest NFA state id of the closures of a DFA node.
SmallestId(node) ==
    CHOOSE n \in SeqToSet(node.closures) :
        \A k \in SeqToSet(node.closures) : n <= k

\* The transitions of the node are in ascending order of the smallest NFA
\* state id of their targets, of the targets' State where closures are empty.
SortedBySmallestId(dfa, node) ==
    \A i \in 1..Len(node.Transitions), j \in 1..Len(node.Transitions) :
        i < j =>
            LET a == dfa[node.Transitions[i].Node]
                b == dfa[node.Transitions[j].Node]
            IN IF a.closures # <<>> /\ b.closures # <<>>
               THEN SmallestId(a) <= SmallestId(b)
               ELSE a.State <= b.State

\* C13: the transitions of every finished DFA node are ordered by the
\* smallest NFA state id of their targets, and two builds of one NFA order
\* them alike.
C13_SortedAndReproducible ==
    \A c \in Calls :
        /\ \A s \in 1..2 :
              Built(calls[c], s) =>
                 \A p \in 1..Len(calls[c].heap[s]) :
                    SortedBySmallestId(calls[c].heap[s], calls[c].heap[s][p])
        /\ (Built(calls[c], 1) /\ calls[c].expr[1] = calls[c].expr[2]) =>
              \A p \in 1..Len(calls[c].heap[1]) :
                 calls[c].heap[1][p].Transitions = calls[c].heap[2][p].Transitions

\* A DFA as a graph over canonical labels: the labels, the labels of the
\* Final nodes, and the transitions as <<label, rune ranges, label>>.
LabelGraph(dfa) ==
    [labels |-> {dfa[p].label : p \in 1..Len(dfa)},
     finals |-> {dfa[p].label : p \in {q \in 1..Len(dfa) : dfa[q].Final}},
     edges |-> UNION {{<<dfa[p].label, dfa[p].Transitions[k].RuneRanges,
                         dfa[dfa[p].Transitions[k].Node].label>> :
                          k \in 1..Len(dfa[p].Transitions)} : p \in 1..Len(dfa)}]

\* C14: two builds of one NFA give the same labels, the same Final flag for
\* each label and the same transitions between labels with the same ranges.
C14_BuildsIsomorphic ==
    \A c \in Calls :
        (Built(calls[c], 1) /\ calls[c].expr[1] = calls[c].expr[2]) =>
            /\ LabelGraph(calls[c].heap[1]) = LabelGraph(calls[c].heap[2])
            /\ calls[c].heap[1][calls[c].root[1]].label =
                  calls[c].heap[2][calls[c].root[2]].label

\* Two builds of one NFA, of three nodes or more, that differ in the order
\* of the transitions of a node.
C14_Witness ==
    /\ Built(calls[1], 1)
    /\ calls[1].expr[1] = calls[1].expr[2]
    /\ Len(calls[1].heap[1]) >= 3
    /\ \E p \in 1..Len(calls[1].heap[1]) :
          calls[1].heap[1][p].Transitions # calls[1].heap[2][p].Transitions

\* C15: at every point of a build, closure of any NFA node, answered from
\* the cache or not, is the list a fresh computation gives: the nodes that
\* epsilon edges lead to from the node, the node first, each once; the cache
\* afterwards holds that list for the node and is otherwise unchanged.
C15_ClosureExact ==
    \A c \in Calls :
        calls[c].pc \in {"build2", "build1"} =>
            LET nfa == calls[c].expr[Side(calls[c])].nfa
                cache == calls[c].ctx.closureCache
            IN \A n \in 1..nfa.n :
                  LET r == closure(nfa, n, cache)
                  IN /\ SeqToSet(r.cls) = EpsClosure(nfa, {n})
                     /\ NoDuplicates(r.cls)
                     /\ r.cls[1] = n
                     /\ r.cls = closure(nfa, n, EmptyMap).cls
                     /\ r.cache = MapPut(cache, n, r.cls)
                     /\ n \in DOMAIN cache => r.cache = cache

\* A build whose cache holds the closures of two nodes on one epsilon cycle,
\* of three nodes or more each.
C15_Witness ==
    /\ calls[1].pc \in {"build2", "build1"}
    /\ \E n \in DOMAIN calls[1].ctx.closureCache,
          k \in DOMAIN calls[1].ctx.closureCache :
          /\ n # k
          /\ Len(calls[1].ctx.closureCache[n]) >= 3
          /\ n \in SeqToSet(calls[1].ctx.closureCache[k])
          /\ k \in SeqToSet(calls[1].ctx.closureCache[n])

\* C16: for sorted, non-overlapping lists a and b, findOverlap(a, b) is a
\* sorted list of pairwise-disjoint ranges covering exactly the characters
\* in both a and b, and it is non-empty when a and b share a character.
C16_OverlapExact ==
    ov.pc = "done" =>
        /\ IsRangeList(ov.result)
        /\ Chars(ov.result) = Chars(ov.range1) \cap Chars(ov.range2)
        /\ Chars(ov.range1) \cap Chars(ov.range2) # {} => ov.result # <<>>

\* A finished call on two lists of two ranges each where a range of one and
\* a range of the other end at the same character and the result has two
\* ranges.
C16_Witness ==
    /\ ov.pc = "done"
    /\ Len(ov.range1) = 4
    /\ Len(ov.range2) = 4
    /\ ov.range1 # ov.range2
    /\ \E p \in RangePairs(ov.range1), q \in RangePairs(ov.range2) :
          p[2] = q[2] /\ p[1] # q[1]
    /\ Len(ov.result) = 4

\* The pair on top of the stack of dfs is not visited yet and both of its
\* DFA nodes are Final.
TopIsFreshFinal(st) ==
    /\ st.pc = "dfs"
    /\ st.stack # <<>>
    /\ LET node == st.stack[Len(st.stack)]
       IN /\ nodeName(st.heap[1][node.Node1], st.heap[2][node.Node2])
                 \notin st.visited
          /\ st.heap[1][node.Node1].Final
          /\ st.heap[2][node.Node2].Final

\* C17: when dfs pops a pair that is not visited yet and whose DFA nodes
\* are both Final, it returns true in that step: the pair is marked, the
\* rest of the stack is left as it was and nothing is pushed; when both
\* roots are Final the search returns true with the root the only pair
\* popped.
C17_FinalReturnsAtOnce ==
    [][\A c \in Calls :
          /\ (TopIsFreshFinal(calls[c]) /\ calls'[c] # calls[c]) =>
                LET node == calls[c].stack[Len(calls[c].stack)]
                    name == nodeName(calls[c].heap[1][node.Node1],
                                     calls[c].heap[2][node.Node2])
                IN /\ calls'[c].pc = "returned"
                   /\ calls'[c].result = TRUE
                   /\ calls'[c].err = NoErr
                   /\ calls'[c].stack =
                         SubSeq(calls[c].stack, 1, Len(calls[c].stack) - 1)
                   /\ calls'[c].visited = calls[c].visited \cup {name}
                   /\ calls'[c].marked = Append(calls[c].marked, name)
                   /\ calls'[c].heap = calls[c].heap
          /\ (/\ calls'[c].pc = "returned"
              /\ calls'[c].err = NoErr
              /\ calls'[c].heap[1][calls'[c].root[1]].Final
              /\ calls'[c].heap[2][calls'[c].root[2]].Final) =>
                /\ calls'[c].result = TRUE
                /\ Len(calls'[c].marked) = 1
                /\ calls'[c].stack = <<>>]_vars

\* A search that returned true on a Final pair other than the root pair,
\* reached after other pairs, with pairs left on the stack; the Final pair
\* has successors that were not pushed.
C17_Witness ==
    /\ calls[1].pc = "returned"
    /\ calls[1].result = TRUE
    /\ Len(calls[1].marked) >= 3
    /\ calls[1].stack # <<>>
    /\ \E p1 \in 1..Len(calls[1].heap[1]), p2 \in 1..Len(calls[1].heap[2]) :
          /\ nodeName(calls[1].heap[1][p1], calls[1].heap[2][p2]) =
                calls[1].marked[Len(calls[1].marked)]
          /\ Successors(calls[1].heap, createNode(calls[1].heap, p1, p2),
                        calls[1].visited) # <<>>

\* Both roots are Final and the search returned after one pop, although
\* the root pair has successors.
C17_WitnessRoots ==
    /\ calls[1].pc = "returned"
    /\ calls[1].result = TRUE
    /\ Len(calls[1].marked) = 1
    /\ Successors(calls[1].heap,
                  createNode(calls[1].heap, calls[1].root[1], calls[1].root[2]),
                  calls[1].visited) # <<>>

\* The nodes a call of Print prints.
Printed(i) == SeqToSet(pr.log[i].nodes)

\* C18: the visitation state of Print is scoped to the traversal: a call of
\* Print that has returned printed the nodes reachable from the root it was
\* called on, whatever calls of Print came before it, and so two calls on
\* one root printed the same set of nodes.
C18_PrintScoped ==
    \A i \in 1..Len(pr.log) :
        (i < Len(pr.log) \/ pr.frames = <<>>) =>
            /\ Printed(i) = ReachableNodes(pr.dfas[pr.log[i].d].nodes,
                                           {pr.dfas[pr.log[i].d].root})
            /\ \A j \in 1..(i - 1) :
                  pr.log[j].d = pr.log[i].d => Printed(j) = Printed(i)

\* C19: for the pair dfs is about to pop and every overlap range that
\* findOverlapRanges computes for it from transitions t1 and t2,
\* findNextNodes gives the one target t1.Node on the first side and the one
\* target t2.Node on the second, a common character leads to both, and the
\* expansion has one pair (t1.Node, t2.Node) for each overlap range.
C19_OneTargetPerOverlap ==
    \A c \in Calls :
        (calls[c].pc = "dfs" /\ calls[c].stack # <<>>) =>
            LET top == calls[c].stack[Len(calls[c].stack)]
                n1 == calls[c].heap[1][top.Node1]
                n2 == calls[c].heap[2][top.Node2]
                ranges == findOverlapRanges(n1.Transitions, n2.Transitions)
            IN /\ \A k \in 1..Len(ranges) :
                     /\ findNextNodes(n1, ranges[k].Range) = <<ranges[k].Node1>>
                     /\ findNextNodes(n2, ranges[k].Range) = <<ranges[k].Node2>>
                     /\ \E ch \in Chars(ranges[k].Range) :
                           /\ NextState(n1, <<ch, ch>>) = ranges[k].Node1
                           /\ NextState(n2, <<ch, ch>>) = ranges[k].Node2
               /\ Successors(calls[c].heap, top, {}) =
                     [k \in 1..Len(ranges) |->
                         createNode(calls[c].heap, ranges[k].Node1,
                                    ranges[k].Node2)]
               /\ Len(Successors(calls[c].heap, top, calls[c].visited))
                     <= Len(ranges)

\* dfs is about to pop a pair whose DFA nodes have two transitions or more
\* each, to different targets, with two overlap ranges or more.
C19_Witness ==
    /\ calls[1].pc = "dfs"
    /\ calls[1].stack # <<>>
    /\ LET top == calls[1].stack[Len(calls[1].stack)]
           n1 == calls[1].heap[1][top.Node1]
           n2 == calls[1].heap[2][top.Node2]
       IN /\ Len(n1.Transitions) >= 2
          /\ Len(n2.Transitions) >= 2
          /\ n1.Transitions # n2.Transitions
          /\ top.Name \notin calls[1].visited
          /\ Len(findOverlapRanges(n1.Transitions, n2.Transitions)) >= 2

\* The orders n transitions can be put in.
Perms(n) == {f \in [1..n -> 1..n] : \A a, b \in 1..n : f[a] = f[b] => a = b}

\* The DFA with the transitions of the node at p in the order f.
PermuteNode(dfa, p, f) ==
    [dfa EXCEPT ![p].Transitions =
        [k \in 1..Len(dfa[p].Transitions) |-> dfa[p].Transitions[f[k]]]]

\* The DFA with the transitions of every node in reverse order.
ReverseAll(dfa) ==
    [p \in 1..Len(dfa) |->
        [dfa[p] EXCEPT !.Transitions =
            [k \in 1..Len(dfa[p].Transitions) |->
                dfa[p].Transitions[Len(dfa[p].Transitions) + 1 - k]]]]

\* The two DFAs of a call with the transitions of one node of one of them
\* in another order, or with the transitions of all nodes reversed in the
\* first DFA, in the second or in both.
TransitionOrders(heap) ==
    UNION {UNION {{[heap EXCEPT ![s] = PermuteNode(heap[s], p, f)] :
                      f \in Perms(Len(heap[s][p].Transitions))} :
                  p \in 1..Len(heap[s])} : s \in 1..2}
    \cup {<<ReverseAll(heap[1]), heap[2]>>, <<heap[1], ReverseAll(heap[2])>>,
          <<ReverseAll(heap[1]), ReverseAll(heap[2])>>}

\* The state in which dfs ends on the DFAs h in place of the DFAs of st.
DfsOn(st, h) ==
    RunAlone([st EXCEPT !.pc = "search", !.heap = h, !.marked = <<>>,
                        !.result = FALSE])

\* C20: the verdict of a call that ran dfs is the verdict dfs gives on the
\* same two DFAs with the transitions of any one node in any other order,
\* and with the transitions of all nodes reversed.
C20_OrderIndependent ==
    \A c \in Calls :
        Answered(calls[c]) =>
            \A h \in TransitionOrders(calls[c].heap) :
                DfsOn(calls[c], h).result = calls[c].result

\* A search that found a common string, and finds it over other pairs, in
\* another order, when the transitions of one node are permuted.
C20_Witness ==
    /\ Answered(calls[1])
    /\ calls[1].result
    /\ Len(calls[1].marked) >= 3
    /\ \E h \in TransitionOrders(calls[1].heap) :
          /\ DfsOn(calls[1], h).result
          /\ SeqToSet(DfsOn(calls[1], h).marked) # SeqToSet(calls[1].marked)
====
